---- MODULE Spec2Model ----
(***************************************************************************)
(* A model of the Qualys MCP server (src/src/index.ts): the credential     *)
(* check, the singleton API client, the rate limiter, the tool registry,   *)
(* the handleToolCall switch and the error classifier.                     *)
(*                                                                         *)
(* Text is a sequence of pieces. A piece is a string literal of the source *)
(* taken whole, a single character, or a run of URI-unreserved characters; *)
(* concatenation is \o. "Error: " is always a piece of its own.            *)
(* A JavaScript value is a record [t, s, n]: t its type, s its text (for a *)
(* string), n its number (for a number; 1/0 for a boolean).                *)
(***************************************************************************)
EXTENDS Integers, Sequences, FiniteSets, TLC

VARIABLES
  QUALYS_USERNAME,   \* process.env.QUALYS_USERNAME || ""
  QUALYS_PASSWORD,   \* process.env.QUALYS_PASSWORD || ""
  lastRequestTime,   \* start time of the last dispatched operation
  apiClient,         \* the singleton client, NoClient while null
  cachedAuthHeader,  \* the cached Basic header, NullHeader while null
  now,               \* Date.now()
  pending,           \* tool calls the protocol layer has yet to deliver
  calls,             \* the handleToolCall invocations, in order of arrival
  starts,            \* start times of the dispatched operations, in order
  created,           \* number of axios.create calls so far
  computed,          \* number of Basic header computations so far
  input,             \* the argument of a helper function called on its own
  output             \* [done, value]: what that call returned

vars == <<QUALYS_USERNAME, QUALYS_PASSWORD, lastRequestTime, apiClient,
          cachedAuthHeader, now, pending, calls, starts, created, computed,
          input, output>>

(***************************************************************************)
(* Bounds of the model.                                                    *)
(***************************************************************************)
\* Date.now() at process start, in ms after an arbitrary origin
StartTime == 2000
\* the clock advances in steps of Quantum ms
Quantum == 500
\* number of clock steps explored; the clock runs on past them while a
\* timer is yet to fall due
MaxTicks == 3
\* tool calls that accompany the call under study in a dispatcher run
MaxBackground == 1
\* tool calls issued back to back in a rate limiter run
MaxBurst == 3
\* tool calls of a run under fair scheduling
MaxLive == 2
\* entries of a mapping handed to buildFormData on its own
MaxEntries == 3
\* pieces of a text handed to parseXmlResponse on its own
MaxXmlLen == 7

RATE_LIMIT_DELAY_MS == 1000

(***************************************************************************)
(* JavaScript values.                                                      *)
(***************************************************************************)
Undefined == [t |-> "undefined", s |-> <<>>, n |-> 0]

Null == [t |-> "null", s |-> <<>>, n |-> 0]

Str(pieces) == [t |-> "string", s |-> pieces, n |-> 0]

Num(k) == [t |-> "number", s |-> <<>>, n |-> k]

Bool(b) == [t |-> "boolean", s |-> <<>>, n |-> IF b THEN 1 ELSE 0]

\* ToBoolean: undefined, null, "", 0 and false are falsy
Truthy(v) ==
  CASE v.t = "string" -> v.s # <<>>
    [] v.t = "number" -> v.n # 0
    [] v.t = "boolean" -> v.n = 1
    [] OTHER -> FALSE

\* a || b
OrElse(a, b) == IF Truthy(a) THEN a ELSE b

\* args.key: undefined when the key is absent
Get(args, key) == IF key \in DOMAIN args THEN args[key] ELSE Undefined

DigitChars == <<"0", "1", "2", "3", "4", "5", "6", "7", "8", "9">>

RECURSIVE Digits(_)
Digits(k) ==
  IF k < 10 THEN <<DigitChars[k + 1]>>
  ELSE Digits(k \div 10) \o <<DigitChars[(k % 10) + 1]>>

\* String(value), for the values the model draws (non-negative integers)
ToStr(v) ==
  CASE v.t = "string" -> v.s
    [] v.t = "number" -> Digits(v.n)
    [] v.t = "boolean" -> IF v.n = 1 THEN <<"true">> ELSE <<"false">>
    [] v.t = "null" -> <<"null">>
    [] OTHER -> <<"undefined">>

(***************************************************************************)
(* Errors. name is the rendered prefix of String(error).                   *)
(***************************************************************************)
NoResponse == [status |-> 0, statusText |-> <<>>, data |-> Undefined]

\* new Error(message), new RangeError(message), ...
LocalError(name, message) ==
  [isAxios |-> FALSE, name |-> name, message |-> message, code |-> "",
   hasResponse |-> FALSE, response |-> NoResponse]

AxiosError(message, code) ==
  [isAxios |-> TRUE, name |-> "AxiosError: ", message |-> message,
   code |-> code, hasResponse |-> FALSE, response |-> NoResponse]

AxiosResponseError(status, statusText, data, code) ==
  [isAxios |-> TRUE, name |-> "AxiosError: ",
   message |-> <<"Request failed with status code ">> \o Digits(status),
   code |-> code, hasResponse |-> TRUE,
   response |-> [status |-> status, statusText |-> statusText, data |-> data]]

NoErr == LocalError("", <<>>)

\* String(error)
ErrorToString(error) == <<error.name>> \o error.message

\* JSON.stringify of a scalar (response bodies of failed requests are text)
JsonScalar(v) ==
  CASE v.t = "string" -> <<"\"">> \o v.s \o <<"\"">>
    [] v.t = "number" -> Digits(v.n)
    [] v.t = "boolean" -> IF v.n = 1 THEN <<"true">> ELSE <<"false">>
    [] v.t = "null" -> <<"null">>
    [] OTHER -> <<"undefined">>

\* variant: the error code looked at before the response
handleApiErrorRefusedFirst(error) ==
  IF error.isAxios
  THEN IF error.code = "ECONNREFUSED"
       THEN <<"Connection refused. Check your QUALYS_API_URL configuration.">>
       ELSE IF error.hasResponse
            THEN <<"API Error: ">> \o Digits(error.response.status)
                 \o <<" - ">> \o error.response.statusText \o <<". ">>
                 \o JsonScalar(error.response.data)
            ELSE <<"Request Error: ">> \o error.message
  ELSE <<"Unknown Error: ">> \o ErrorToString(error)

handleApiError(error) ==
  IF error.isAxios
  THEN IF error.hasResponse
       THEN <<"API Error: ">> \o Digits(error.response.status) \o <<" - ">>
            \o error.response.statusText \o <<". ">>
            \o JsonScalar(error.response.data)
       ELSE IF error.code = "ECONNREFUSED"
            THEN <<"Connection refused. Check your QUALYS_API_URL configuration.">>
            ELSE <<"Request Error: ">> \o error.message
  ELSE <<"Unknown Error: ">> \o ErrorToString(error)

(***************************************************************************)
(* The form encoder.                                                       *)
(***************************************************************************)
\* a lone surrogate code unit, which encodeURIComponent rejects
LoneSurrogate == "\\uD800"

\* the reserved characters the model draws, with their percent-encodings
Reserved == {",", "/", " ", "&", "=", ":", "+", "%", "?"}

\* variant: encodeURI, which leaves the separators , / ? : & = + as they are
EncodePieceKeepingSeparators(p) ==
  CASE p = " " -> "%20"
    [] p = "%" -> "%25"
    [] OTHER -> p

EncodePiece(p) ==
  CASE p = "," -> "%2C"
    [] p = "/" -> "%2F"
    [] p = " " -> "%20"
    [] p = "&" -> "%26"
    [] p = "=" -> "%3D"
    [] p = ":" -> "%3A"
    [] p = "+" -> "%2B"
    [] p = "%" -> "%25"
    [] p = "?" -> "%3F"
    [] OTHER -> p

\* encodeURIComponent throws URIError on a lone surrogate
Malformed(pieces) == \E i \in DOMAIN pieces : pieces[i] = LoneSurrogate

encodeURIComponent(pieces) == [i \in DOMAIN pieces |-> EncodePiece(pieces[i])]

\* variant: a filter by truthiness, which also drops 0, false and null
KeptTruthy(entries) == SelectSeq(entries, LAMBDA e : Truthy(e[2]))

\* Object.entries(params).filter(...): undefined and "" are dropped
Kept(entries) ==
  SelectSeq(entries, LAMBDA e : e[2] # Undefined /\ e[2] # Str(<<>>))

RECURSIVE JoinPairs(_)
JoinPairs(entries) ==
  IF entries = <<>> THEN <<>>
  ELSE LET e == Head(entries)
           pair == encodeURIComponent(<<e[1]>>) \o <<"=">>
                   \o encodeURIComponent(ToStr(e[2]))
       IN  IF Len(entries) = 1 THEN pair
           ELSE pair \o <<"&">> \o JoinPairs(Tail(entries))

\* a key that is an array index; the model draws such keys of one digit
IsIndexKey(key) ==
  key \in {"0", "1", "2", "3", "4", "5", "6", "7", "8", "9"}

IndexOf(key) == (CHOOSE i \in DOMAIN DigitChars : DigitChars[i] = key) - 1

\* Object.entries(params): the array-index keys in ascending order, then
\* the other keys in insertion order
ObjectEntries(params) ==
  LET indexed == SelectSeq(params, LAMBDA e : IsIndexKey(e[1]))
  IN  IF indexed = <<>> THEN params
      ELSE SortSeq(indexed, LAMBDA a, b : IndexOf(a[1]) < IndexOf(b[1]))
           \o SelectSeq(params, LAMBDA e : ~IsIndexKey(e[1]))

\* params is the object given by its properties in insertion order.
\* [thrown, error, body]: the wire body, or the URIError of the first
\* entry that cannot be encoded
buildFormData(params) ==
  LET kept == Kept(ObjectEntries(params)) IN
  IF \E i \in DOMAIN kept : Malformed(ToStr(kept[i][2]))
  THEN [thrown |-> TRUE,
        error |-> LocalError("URIError: ", <<"URI malformed">>),
        body |-> <<>>]
  ELSE [thrown |-> FALSE, error |-> NoErr, body |-> JoinPairs(kept)]

(***************************************************************************)
(* The tool registry: name, declared properties and required list of each  *)
(* entry of the tools array.                                               *)
(***************************************************************************)
Tool(name, properties, required) ==
  [name |-> name, properties |-> properties, required |-> required]

tools ==
  << Tool("qualys_list_hosts",
          {"ips", "ag_ids", "ag_titles", "truncation_limit", "details"}, {}),
     Tool("qualys_get_host_detections",
          {"ips", "ids", "ag_ids", "status", "severities", "qids",
           "truncation_limit", "show_igs", "include_vuln_type",
           "arf_filter_keys", "show_epss"}, {}),
     Tool("qualys_launch_scan",
          {"scan_title", "ip", "asset_groups", "asset_group_ids",
           "option_title", "option_id", "iscanner_name", "priority"},
          {"scan_title"}),
     Tool("qualys_list_scans",
          {"scan_ref", "state", "type", "launched_after_datetime",
           "launched_before_datetime"}, {}),
     Tool("qualys_get_scan_results", {"scan_ref", "output_format"},
          {"scan_ref"}),
     Tool("qualys_cancel_scan", {"scan_ref"}, {"scan_ref"}),
     Tool("qualys_pause_scan", {"scan_ref"}, {"scan_ref"}),
     Tool("qualys_resume_scan", {"scan_ref"}, {"scan_ref"}),
     Tool("qualys_list_reports", {"id", "state"}, {}),
     Tool("qualys_launch_report",
          {"template_id", "report_title", "output_format", "ips",
           "asset_group_ids"}, {"template_id"}),
     Tool("qualys_download_report", {"id"}, {"id"}),
     Tool("qualys_list_asset_groups", {"ids", "title", "truncation_limit"},
          {}),
     Tool("qualys_get_knowledgebase",
          {"ids", "id_min", "id_max", "details", "last_modified_after",
           "last_modified_before", "published_after", "published_before",
           "show_qds", "show_qds_factors", "show_pci_reasons"}, {}),
     Tool("qualys_get_knowledgebase_by_cve",
          {"cve_ids", "qvs_min", "qvs_max", "last_modified_within_days",
           "show_qds", "show_qds_factors"}, {}),
     Tool("qualys_list_scanners", {"type", "status"}, {}),
     Tool("qualys_list_option_profiles", {"title"}, {}),
     Tool("qualys_list_tags", {"name"}, {}),
     Tool("qualys_get_activity_log",
          {"since_datetime", "until_datetime", "action", "truncation_limit"},
          {}) >>

ToolNames == {tools[i].name : i \in DOMAIN tools}

\* the default values the properties of the registry declare: tool,
\* property, default
defaults ==
  { <<"qualys_list_hosts", "truncation_limit", Num(100)>>,
    <<"qualys_list_hosts", "details", Str(<<"Basic">>)>>,
    <<"qualys_get_host_detections", "truncation_limit", Num(100)>>,
    <<"qualys_get_host_detections", "show_igs", Bool(FALSE)>>,
    <<"qualys_get_host_detections", "show_epss", Bool(FALSE)>>,
    <<"qualys_launch_scan", "priority", Num(0)>>,
    <<"qualys_get_scan_results", "output_format", Str(<<"xml">>)>>,
    <<"qualys_launch_report", "output_format", Str(<<"pdf">>)>>,
    <<"qualys_list_asset_groups", "truncation_limit", Num(100)>>,
    <<"qualys_get_knowledgebase", "details", Str(<<"Basic">>)>>,
    <<"qualys_get_knowledgebase", "show_qds", Bool(FALSE)>>,
    <<"qualys_get_knowledgebase", "show_qds_factors", Bool(FALSE)>>,
    <<"qualys_get_knowledgebase", "show_pci_reasons", Bool(FALSE)>>,
    <<"qualys_get_knowledgebase_by_cve", "show_qds", Bool(TRUE)>>,
    <<"qualys_get_knowledgebase_by_cve", "show_qds_factors", Bool(FALSE)>>,
    <<"qualys_get_activity_log", "truncation_limit", Num(100)>> }

\* inputSchema.required of the registered tool called name
Required(name) ==
  LET i == CHOOSE j \in DOMAIN tools : tools[j].name = name
  IN  tools[i].required

(***************************************************************************)
(* The handleToolCall switch: its case labels and, per case, the required  *)
(* argument checks, the parameters handed to buildFormData, the path and   *)
(* the treatment of the response.                                          *)
(***************************************************************************)
\* variant: the switch without its last case
CaseLabelsWithoutActivityLog ==
  {"qualys_list_hosts", "qualys_get_host_detections", "qualys_launch_scan",
   "qualys_list_scans", "qualys_get_scan_results", "qualys_cancel_scan",
   "qualys_pause_scan", "qualys_resume_scan", "qualys_list_reports",
   "qualys_launch_report", "qualys_download_report",
   "qualys_list_asset_groups", "qualys_get_knowledgebase",
   "qualys_get_knowledgebase_by_cve", "qualys_list_scanners",
   "qualys_list_option_profiles", "qualys_list_tags"}

CaseLabels ==
  {"qualys_list_hosts", "qualys_get_host_detections", "qualys_launch_scan",
   "qualys_list_scans", "qualys_get_scan_results", "qualys_cancel_scan",
   "qualys_pause_scan", "qualys_resume_scan", "qualys_list_reports",
   "qualys_launch_report", "qualys_download_report",
   "qualys_list_asset_groups", "qualys_get_knowledgebase",
   "qualys_get_knowledgebase_by_cve", "qualys_list_scanners",
   "qualys_list_option_profiles", "qualys_list_tags",
   "qualys_get_activity_log"}

\* variant: a match that ignores letter case
RouteIgnoringCase(name) ==
  IF name = "QUALYS_LIST_HOSTS" THEN "qualys_list_hosts"
  ELSE IF name \in CaseLabels THEN name ELSE "default"

\* switch (name): strict equality with a case label, or the default branch
Route(name) == IF name \in CaseLabels THEN name ELSE "default"

IsRequired(field) == LocalError("Error: ", <<field, " is required">>)

\* variant: the target selector check left out
LaunchScanChecksTitleOnly(args) ==
  IF ~Truthy(Get(args, "scan_title")) THEN IsRequired("scan_title")
  ELSE NoErr

\* case "qualys_launch_scan": the title, then one target selector
LaunchScanChecks(args) ==
  IF ~Truthy(Get(args, "scan_title")) THEN IsRequired("scan_title")
  ELSE IF ~Truthy(Get(args, "ip"))
          /\ ~Truthy(Get(args, "asset_groups"))
          /\ ~Truthy(Get(args, "asset_group_ids"))
       THEN LocalError("Error: ",
              <<"At least one of ", "ip", ", ", "asset_groups", ", or ",
                "asset_group_ids", " is required">>)
       ELSE NoErr

\* variant: the check left out of case "qualys_resume_scan"
ScanRefCasesWithoutResume ==
  {"qualys_get_scan_results", "qualys_cancel_scan", "qualys_pause_scan"}

\* the cases that begin with if (!args.scan_ref) throw ...
ScanRefCases ==
  {"qualys_get_scan_results", "qualys_cancel_scan", "qualys_pause_scan",
   "qualys_resume_scan"}

\* variant: the checks test that the argument is there, not that it is
\* truthy
ValidationOfAbsence(label, args) ==
  CASE label = "qualys_launch_scan" ->
         IF Get(args, "scan_title") = Undefined THEN IsRequired("scan_title")
         ELSE LaunchScanChecks(args)
    [] label \in ScanRefCases ->
         IF Get(args, "scan_ref") = Undefined THEN IsRequired("scan_ref")
         ELSE NoErr
    [] label = "qualys_launch_report" ->
         IF Get(args, "template_id") = Undefined
         THEN IsRequired("template_id") ELSE NoErr
    [] label = "qualys_download_report" ->
         IF Get(args, "id") = Undefined THEN IsRequired("id") ELSE NoErr
    [] OTHER -> NoErr

\* the checks a case makes before it builds its parameters
Validation(label, args) ==
  CASE label = "qualys_launch_scan" -> LaunchScanChecks(args)
    [] label \in ScanRefCases ->
         IF ~Truthy(Get(args, "scan_ref")) THEN IsRequired("scan_ref")
         ELSE NoErr
    [] label = "qualys_launch_report" ->
         IF ~Truthy(Get(args, "template_id")) THEN IsRequired("template_id")
         ELSE NoErr
    [] label = "qualys_download_report" ->
         IF ~Truthy(Get(args, "id")) THEN IsRequired("id") ELSE NoErr
    [] OTHER -> NoErr

\* the day number (days since the epoch) of new Date()
Today == 20763

\* the largest day number a Date holds (8.64e15 ms); beyond it the time
\* value is NaN and toISOString throws RangeError
MaxDateDays == 100000000

\* date.setDate(date.getDate() - days) leaves a valid date
ValidDaysAgo(days) ==
  /\ days.t \in {"number", "boolean"}
  /\ Today - days.n >= -MaxDateDays
  /\ Today - days.n <= MaxDateDays

\* date.toISOString().split('T')[0] of the date days before today; the
\* calendar date is kept symbolic
DaysAgoDate(days) == Str(<<"today-">> \o Digits(days.n) \o <<"d">>)

\* what a case throws while it derives its parameters, before buildFormData
Derivation(label, args) ==
  IF /\ label = "qualys_get_knowledgebase_by_cve"
     /\ Truthy(Get(args, "last_modified_within_days"))
     /\ ~ValidDaysAgo(Get(args, "last_modified_within_days"))
  THEN LocalError("RangeError: ", <<"Invalid time value">>)
  ELSE NoErr

\* variant: the flag rendered as String(Boolean(args.flag))
FlagAsBoolean(v) == IF Truthy(v) THEN Str(<<"true">>) ELSE Str(<<"false">>)

\* args.flag ? "1" : "0"
Flag(v) == IF Truthy(v) THEN Str(<<"1">>) ELSE Str(<<"0">>)

Action(a) == <<"action", Str(<<a>>)>>

Arg(args, key) == <<key, Get(args, key)>>

\* the object handed to buildFormData, as its entries in insertion order
Params(label, args) ==
  CASE label = "qualys_list_hosts" ->
         << Action("list"), Arg(args, "ips"), Arg(args, "ag_ids"),
            Arg(args, "ag_titles"),
            <<"truncation_limit",
              OrElse(Get(args, "truncation_limit"), Num(100))>>,
            <<"details", OrElse(Get(args, "details"), Str(<<"Basic">>))>> >>
    [] label = "qualys_get_host_detections" ->
         << Action("list"), Arg(args, "ips"), Arg(args, "ids"),
            Arg(args, "ag_ids"), Arg(args, "status"),
            Arg(args, "severities"), Arg(args, "qids"),
            <<"truncation_limit",
              OrElse(Get(args, "truncation_limit"), Num(100))>>,
            <<"show_igs", Flag(Get(args, "show_igs"))>>,
            Arg(args, "include_vuln_type"), Arg(args, "arf_filter_keys"),
            <<"show_epss", Flag(Get(args, "show_epss"))>> >>
    [] label = "qualys_launch_scan" ->
         << Action("launch"), Arg(args, "scan_title"), Arg(args, "ip"),
            Arg(args, "asset_groups"), Arg(args, "asset_group_ids"),
            Arg(args, "option_title"), Arg(args, "option_id"),
            Arg(args, "iscanner_name"), Arg(args, "priority") >>
    [] label = "qualys_list_scans" ->
         << Action("list"), Arg(args, "scan_ref"), Arg(args, "state"),
            Arg(args, "type"), Arg(args, "launched_after_datetime"),
            Arg(args, "launched_before_datetime") >>
    [] label = "qualys_get_scan_results" ->
         << Action("fetch"), Arg(args, "scan_ref"),
            <<"output_format",
              OrElse(Get(args, "output_format"), Str(<<"xml">>))>> >>
    [] label = "qualys_cancel_scan" ->
         << Action("cancel"), Arg(args, "scan_ref") >>
    [] label = "qualys_pause_scan" ->
         << Action("pause"), Arg(args, "scan_ref") >>
    [] label = "qualys_resume_scan" ->
         << Action("resume"), Arg(args, "scan_ref") >>
    [] label = "qualys_list_reports" ->
         << Action("list"), Arg(args, "id"), Arg(args, "state") >>
    [] label = "qualys_launch_report" ->
         << Action("launch"), Arg(args, "template_id"),
            Arg(args, "report_title"),
            <<"output_format",
              OrElse(Get(args, "output_format"), Str(<<"pdf">>))>>,
            Arg(args, "ips"), Arg(args, "asset_group_ids") >>
    [] label = "qualys_download_report" ->
         << Action("fetch"), Arg(args, "id") >>
    [] label = "qualys_list_asset_groups" ->
         << Action("list"), Arg(args, "ids"), Arg(args, "title"),
            <<"truncation_limit",
              OrElse(Get(args, "truncation_limit"), Num(100))>> >>
    [] label = "qualys_get_knowledgebase" ->
         << Action("list"), Arg(args, "ids"), Arg(args, "id_min"),
            Arg(args, "id_max"),
            <<"details", OrElse(Get(args, "details"), Str(<<"Basic">>))>>,
            Arg(args, "last_modified_after"),
            Arg(args, "last_modified_before"),
            Arg(args, "published_after"), Arg(args, "published_before"),
            <<"show_qds", Flag(Get(args, "show_qds"))>>,
            <<"show_qds_factors", Flag(Get(args, "show_qds_factors"))>>,
            <<"show_pci_reasons", Flag(Get(args, "show_pci_reasons"))>> >>
    [] label = "qualys_get_knowledgebase_by_cve" ->
         << Action("list"),
            <<"cve_id",
              IF Truthy(Get(args, "cve_ids")) THEN Get(args, "cve_ids")
              ELSE Undefined>>,
            Arg(args, "qvs_min"), Arg(args, "qvs_max"),
            <<"last_modified_after",
              IF Truthy(Get(args, "last_modified_within_days"))
              THEN DaysAgoDate(Get(args, "last_modified_within_days"))
              ELSE Undefined>>,
            <<"show_qds",
              IF Get(args, "show_qds") # Bool(FALSE) THEN Str(<<"1">>)
              ELSE Str(<<"0">>)>>,
            <<"show_qds_factors", Flag(Get(args, "show_qds_factors"))>> >>
    [] label = "qualys_list_scanners" ->
         << Action("list"), Arg(args, "type"), Arg(args, "status") >>
    [] label = "qualys_list_option_profiles" ->
         << Action("list"), Arg(args, "title") >>
    [] label = "qualys_list_tags" -> << Action("list") >>
    [] label = "qualys_get_activity_log" ->
         << Action("list"), Arg(args, "since_datetime"),
            Arg(args, "until_datetime"),
            <<"user_action", Get(args, "action")>>,
            <<"truncation_limit",
              OrElse(Get(args, "truncation_limit"), Num(100))>> >>
    [] OTHER -> <<>>

\* the path a case posts to
Path(label) ==
  CASE label = "qualys_list_hosts" -> "/api/2.0/fo/asset/host/"
    [] label = "qualys_get_host_detections" ->
         "/api/2.0/fo/asset/host/vm/detection/"
    [] label \in {"qualys_launch_scan", "qualys_list_scans",
                  "qualys_get_scan_results", "qualys_cancel_scan",
                  "qualys_pause_scan", "qualys_resume_scan"} ->
         "/api/2.0/fo/scan/"
    [] label \in {"qualys_list_reports", "qualys_launch_report",
                  "qualys_download_report"} -> "/api/2.0/fo/report/"
    [] label = "qualys_list_asset_groups" -> "/api/2.0/fo/asset/group/"
    [] label \in {"qualys_get_knowledgebase",
                  "qualys_get_knowledgebase_by_cve"} ->
         "/api/2.0/fo/knowledge_base/vuln/"
    [] label = "qualys_list_scanners" -> "/api/2.0/fo/appliance/"
    [] label = "qualys_list_option_profiles" ->
         "/api/2.0/fo/subscription/option_profile/vm/"
    [] label = "qualys_list_tags" -> "/qps/rest/2.0/search/am/tag"
    [] label = "qualys_get_activity_log" -> "/api/2.0/fo/activity_log/"
    [] OTHER -> ""

\* the Content-Type of the request: the client's default, or the override
ContentType(label) ==
  IF label = "qualys_list_tags" THEN "application/json"
  ELSE "application/x-www-form-urlencoded"

\* variant: every case honours output_format
TreatmentByFormat(label, args) ==
  IF label = "qualys_download_report" THEN "download"
  ELSE IF label = "qualys_list_tags" THEN "direct"
  ELSE IF Get(args, "output_format") = Str(<<"xml">>)
          \/ ~Truthy(Get(args, "output_format"))
  THEN "parse" ELSE "data"

\* variant: every case hands response.data to parseXmlResponse
TreatmentAlwaysParsed(label, args) == "parse"

\* JSON.parse accepts the text: of the texts the model draws, the literals
\* and the numbers
JsonParses(text) ==
  \/ text \in {<<"true">>, <<"false">>, <<"null">>}
  \/ /\ text # <<>>
     /\ \A i \in DOMAIN text :
          \E d \in DOMAIN DigitChars : text[i] = DigitChars[d]
     /\ Len(text) = 1 \/ text[1] # "0"

\* what the client puts on the wire for a body given as text: under the
\* JSON content type a text that is not JSON is serialized as a JSON
\* string, under the form content type the text goes as it is
transformRequest(contentType, data) ==
  IF contentType = "application/json" /\ ~JsonParses(data)
  THEN <<"\"">> \o data \o <<"\"">>
  ELSE data

\* what a case does with response.data
Treatment(label, args) ==
  CASE label = "qualys_download_report" -> "download"
    [] label = "qualys_list_tags" -> "direct"
    [] label = "qualys_get_scan_results" ->
         IF Get(args, "output_format") = Str(<<"xml">>)
            \/ ~Truthy(Get(args, "output_format"))
         THEN "parse" ELSE "data"
    [] OTHER -> "parse"

\* the keys of args a case reads
KeysRead(label) ==
  CASE label = "qualys_list_hosts" ->
         {"ips", "ag_ids", "ag_titles", "truncation_limit", "details"}
    [] label = "qualys_get_host_detections" ->
         {"ips", "ids", "ag_ids", "status", "severities", "qids",
          "truncation_limit", "show_igs", "include_vuln_type",
          "arf_filter_keys", "show_epss"}
    [] label = "qualys_launch_scan" ->
         {"scan_title", "ip", "asset_groups", "asset_group_ids",
          "option_title", "option_id", "iscanner_name", "priority"}
    [] label = "qualys_list_scans" ->
         {"scan_ref", "state", "type", "launched_after_datetime",
          "launched_before_datetime"}
    [] label = "qualys_get_scan_results" -> {"scan_ref", "output_format"}
    [] label \in {"qualys_cancel_scan", "qualys_pause_scan",
                  "qualys_resume_scan"} -> {"scan_ref"}
    [] label = "qualys_list_reports" -> {"id", "state"}
    [] label = "qualys_launch_report" ->
         {"template_id", "report_title", "output_format", "ips",
          "asset_group_ids"}
    [] label = "qualys_download_report" -> {"id"}
    [] label = "qualys_list_asset_groups" ->
         {"ids", "title", "truncation_limit"}
    [] label = "qualys_get_knowledgebase" ->
         {"ids", "id_min", "id_max", "details", "last_modified_after",
          "last_modified_before", "published_after", "published_before",
          "show_qds", "show_qds_factors", "show_pci_reasons"}
    [] label = "qualys_get_knowledgebase_by_cve" ->
         {"cve_ids", "qvs_min", "qvs_max", "last_modified_within_days",
          "show_qds", "show_qds_factors"}
    [] label = "qualys_list_scanners" -> {"type", "status"}
    [] label = "qualys_list_option_profiles" -> {"title"}
    [] label = "qualys_get_activity_log" ->
         {"since_datetime", "until_datetime", "action", "truncation_limit"}
    [] OTHER -> {}

NoRequest ==
  [path |-> "", body |-> <<>>, contentType |-> "", treatment |-> ""]

\* the synchronous part of the try block, up to the call of
\* rateLimitedRequest: [thrown, error, label, request]
Prepare(name, args) ==
  LET label == Route(name)
      invalid == Validation(label, args)
      underived == Derivation(label, args)
      form == buildFormData(Params(label, args))
      Throw(e) == [thrown |-> TRUE, error |-> e, label |-> label,
                   request |-> NoRequest]
  IN  IF label = "default"
      THEN Throw(LocalError("Error: ", <<"Unknown tool: ", name>>))
      ELSE IF invalid # NoErr THEN Throw(invalid)
      ELSE IF underived # NoErr THEN Throw(underived)
      ELSE IF form.thrown THEN Throw(form.error)
      ELSE [thrown |-> FALSE, error |-> NoErr, label |-> label,
            request |-> [path |-> Path(label), body |-> form.body,
                         contentType |-> ContentType(label),
                         treatment |-> Treatment(label, args)]]

(***************************************************************************)
(* Results and their serialization.                                        *)
(***************************************************************************)
\* a result is a scalar value or an object given by its fields in order
Scalar(v) == [isObject |-> FALSE, fields |-> <<>>, scalar |-> v]

Obj(fields) == [isObject |-> TRUE, fields |-> fields, scalar |-> Undefined]

RECURSIVE Join(_)
\* the pieces of a name as one string
Join(pieces) == IF pieces = <<>> THEN "" ELSE Head(pieces) \o Join(Tail(pieces))

NamePiece(p) == p \notin {"<", "</", ">"}

\* the place of the first ">" of s after its second piece, 0 when none
FirstClose(s) ==
  IF \E j \in 3..Len(s) : s[j] = ">"
  THEN CHOOSE j \in 3..Len(s) : s[j] = ">" /\ \A h \in 3..(j - 1) : s[h] # ">"
  ELSE 0

\* the number of pieces of the name of the tag that s opens, 0 when s does
\* not begin with a start tag
NameLen(s) ==
  LET close == FirstClose(s)
  IN  IF /\ close > 0 /\ s[1] = "<"
         /\ \A i \in 2..(close - 1) : NamePiece(s[i])
      THEN close - 2
      ELSE 0

\* the name of the root element, for a name of k pieces
RootName(s, k) == SubSeq(s, 2, k + 1)

\* the pieces between the start tag and the last k + 2 pieces
Content(s, k) == SubSeq(s, k + 3, Len(s) - k - 2)

\* markup of one element holding text: a start tag of a name of k pieces,
\* text without "<", and the end tag of the same name (an element nested
\* in another takes more pieces than the model draws)
WellFormedAs(s, k) ==
  /\ k > 0
  /\ Len(s) >= 2 * k + 4
  /\ s[Len(s) - k - 1] = "</"
  /\ SubSeq(s, Len(s) - k, Len(s) - 1) = RootName(s, k)
  /\ s[Len(s)] = ">"
  /\ \A i \in (k + 3)..(Len(s) - k - 2) : s[i] \notin {"<", "</"}

WellFormed(s) == WellFormedAs(s, NameLen(s))

\* parseStringPromise(xml, {explicitArray: false, ...}) of xml2js:
\* [rejected, error, value]. It resolves null for blank input and an object
\* keyed by the root tag for markup, and rejects otherwise
parseStringPromise(xml) ==
  LET k == NameLen(xml.s)
  IN  IF xml.t = "string" /\ xml.s = <<>>
      THEN [rejected |-> FALSE, error |-> NoErr, value |-> Scalar(Null)]
      ELSE IF xml.t = "string" /\ WellFormedAs(xml.s, k)
      THEN [rejected |-> FALSE, error |-> NoErr,
            value |-> Obj(<< <<Join(RootName(xml.s, k)),
                               Str(Content(xml.s, k))>> >>)]
      ELSE [rejected |-> TRUE,
            error |-> LocalError("Error: ",
                                 <<"Non-whitespace before first tag.">>),
            value |-> Scalar(Undefined)]

\* variant: the await without the try/catch around it
parseXmlResponseNoCatch(xml) ==
  LET parsed == parseStringPromise(xml)
  IN  [thrown |-> parsed.rejected, error |-> parsed.error,
       result |-> parsed.value]

\* [thrown, error, result]: the catch returns {raw: xml}
parseXmlResponse(xml) ==
  LET parsed == parseStringPromise(xml)
  IN  [thrown |-> FALSE, error |-> NoErr,
       result |-> IF parsed.rejected THEN Obj(<< <<"raw", xml>> >>)
                  ELSE parsed.value]

RECURSIVE JsonFields(_)
JsonFields(fields) ==
  IF fields = <<>> THEN <<>>
  ELSE LET f == Head(fields)
           one == <<"\n  ", "\"", f[1], "\"", ": ">> \o JsonScalar(f[2])
       IN  IF Len(fields) = 1 THEN one
           ELSE one \o <<",">> \o JsonFields(Tail(fields))

\* JSON.stringify drops the fields whose value is undefined
Defined(fields) == SelectSeq(fields, LAMBDA f : f[2] # Undefined)

\* variant: a string result returned as it is, not serialized
JsonStringifyUnquoted(result) ==
  IF result.isObject
  THEN IF Defined(result.fields) = <<>> THEN <<"{}">>
       ELSE <<"{">> \o JsonFields(Defined(result.fields)) \o <<"\n", "}">>
  ELSE ToStr(result.scalar)

\* JSON.stringify(result, null, 2)
JsonStringify(result) ==
  IF result.isObject
  THEN IF Defined(result.fields) = <<>> THEN <<"{}">>
       ELSE <<"{">> \o JsonFields(Defined(result.fields)) \o <<"\n", "}">>
  ELSE JsonScalar(result.scalar)

\* the result a case makes of a successful response
ResultOf(call, response) ==
  CASE call.request.treatment = "parse" ->
         parseXmlResponse(response.data).result
    [] call.request.treatment = "data" -> Obj(<< <<"data", response.data>> >>)
    [] call.request.treatment = "download" ->
         Obj(<< <<"message", Str(<<"Report downloaded successfully">>)>>,
                <<"id", Get(call.args, "id")>>,
                <<"size", Num(Len(response.data.s))>>,
                <<"contentType", response.contentType>> >>)
    [] OTHER -> Scalar(response.data)

\* what the switch makes of a call: the request it prepares or the error it
\* throws, and the result it builds when the response is response
Handled(name, args, response) ==
  LET prep == Prepare(name, args)
  IN  [prepared |-> prep,
       result |-> IF prep.thrown THEN Scalar(Undefined)
                  ELSE ResultOf([request |-> prep.request, args |-> args],
                                response)]

Envelope(text) == [content |-> << [type |-> "text", text |-> text] >>]

NoEnvelope == [content |-> <<>>]

\* the return of the try block
SuccessEnvelope(result) == Envelope(JsonStringify(result))

\* variant: a catch block that rethrows what is not an AxiosError
CatchBlockRethrow(error) ==
  [escaped |-> ~error.isAxios,
   envelope |-> IF error.isAxios
                THEN Envelope(<<"Error: ">> \o handleApiError(error))
                ELSE NoEnvelope]

\* the catch block: [escaped, envelope]
CatchBlock(error) ==
  [escaped |-> FALSE,
   envelope |-> Envelope(<<"Error: ">> \o handleApiError(error))]

(***************************************************************************)
(* Credentials and the singleton client.                                   *)
(***************************************************************************)
CredentialText ==
  <<"Qualys credentials not configured. Please set the following environment variables:\n",
    "  - QUALYS_USERNAME: Your Qualys username\n",
    "  - QUALYS_PASSWORD: Your Qualys password\n",
    "  - QUALYS_API_URL: (optional) Your Qualys API URL (defaults to https://qualysapi.qualys.com)">>

\* variant: the check made with && in place of ||
checkCredentialsBothEmpty ==
  IF QUALYS_USERNAME = "" /\ QUALYS_PASSWORD = "" THEN CredentialText
  ELSE <<>>

\* the message, or <<>> for null
checkCredentials ==
  IF QUALYS_USERNAME = "" \/ QUALYS_PASSWORD = "" THEN CredentialText
  ELSE <<>>

NullHeader == <<>>

NoClient == [id |-> 0, authorization |-> <<>>]

\* `Basic ${Buffer.from(`${user}:${password}`).toString("base64")}`, the
\* digest kept symbolic
BasicHeader == <<"Basic ", "base64(", QUALYS_USERNAME, ":", QUALYS_PASSWORD, ")">>

\* variant: the client built on every call (no early return)
getApiClientUncached ==
  LET compute == /\ cachedAuthHeader = NullHeader
                 /\ QUALYS_USERNAME # "" /\ QUALYS_PASSWORD # ""
      header == IF compute THEN BasicHeader ELSE cachedAuthHeader
      client == [id |-> created + 1, authorization |-> header]
  IN  [client |-> client, apiClient |-> client,
       cachedAuthHeader |-> header, created |-> created + 1,
       computed |-> IF compute THEN computed + 1 ELSE computed]

\* variant: the client built without computing the header
getApiClientHeaderless ==
  IF apiClient # NoClient
  THEN [client |-> apiClient, apiClient |-> apiClient,
        cachedAuthHeader |-> cachedAuthHeader, created |-> created,
        computed |-> computed]
  ELSE LET client == [id |-> created + 1, authorization |-> cachedAuthHeader]
       IN  [client |-> client, apiClient |-> client,
            cachedAuthHeader |-> cachedAuthHeader, created |-> created + 1,
            computed |-> computed]

\* the state getApiClient leaves and the handle it returns:
\* [client, apiClient, cachedAuthHeader, created, computed]
getApiClient ==
  IF apiClient # NoClient
  THEN [client |-> apiClient, apiClient |-> apiClient,
        cachedAuthHeader |-> cachedAuthHeader, created |-> created,
        computed |-> computed]
  ELSE LET compute == /\ cachedAuthHeader = NullHeader
                      /\ QUALYS_USERNAME # "" /\ QUALYS_PASSWORD # ""
           header == IF compute THEN BasicHeader ELSE cachedAuthHeader
           client == [id |-> created + 1, authorization |-> header]
       IN  [client |-> client, apiClient |-> client,
            cachedAuthHeader |-> header, created |-> created + 1,
            computed |-> IF compute THEN computed + 1 ELSE computed]

(***************************************************************************)
(* The rate limiter.                                                       *)
(***************************************************************************)
\* variant: a caller that comes too soon waits the whole delay
RemainingDelayWhole(t) ==
  IF t - lastRequestTime < RATE_LIMIT_DELAY_MS THEN RATE_LIMIT_DELAY_MS ELSE 0

\* the delay rateLimitedRequest asks of setTimeout at time t, 0 for none
RemainingDelay(t) ==
  LET timeSinceLastRequest == t - lastRequestTime
  IN  IF timeSinceLastRequest < RATE_LIMIT_DELAY_MS
      THEN RATE_LIMIT_DELAY_MS - timeSinceLastRequest
      ELSE 0

(***************************************************************************)
(* Inputs: tool calls and the replies of the remote service.               *)
(***************************************************************************)
UnregisteredNames ==
  {"qualys_list_host", "QUALYS_LIST_HOSTS", "qualys_list_hosts_v2",
   "list_hosts", "", "default"}

Names == ToolNames \cup CaseLabels \cup UnregisteredNames

NoArgs == <<>>

\* the argument maps drawn for a tool name: the arguments its case branches
\* on or may fail to encode
ArgsFor(name) ==
  CASE name = "qualys_launch_scan" ->
         [scan_title : {Undefined, Str(<<>>), Str(<<"Weekly", " ", "scan">>)},
          ip : {Undefined, Str(<<"10.0.0.50">>)},
          asset_groups : {Undefined, Str(<<"Servers">>)},
          asset_group_ids : {Undefined, Str(<<"7">>)}]
    [] name = "qualys_get_scan_results" ->
         [scan_ref : {Undefined, Str(<<>>), Str(<<"scan", "/", "1">>)},
          output_format : {Undefined, Str(<<"xml">>), Str(<<"csv">>)}]
    [] name \in {"qualys_cancel_scan", "qualys_pause_scan",
                 "qualys_resume_scan", "qualys_list_scans"} ->
         [scan_ref : {Undefined, Str(<<>>), Str(<<"scan", "/", "1">>)}]
    [] name = "qualys_launch_report" ->
         [template_id : {Undefined, Num(0), Num(5)}]
    [] name = "qualys_download_report" ->
         [id : {Undefined, Null, Num(0), Bool(FALSE), Num(42)}]
    [] name = "qualys_list_reports" ->
         [id : {Undefined, Null, Num(0), Num(42)}]
    [] name = "qualys_get_knowledgebase_by_cve" ->
         [last_modified_within_days : {Undefined, Num(15), Num(200000000)}]
    [] name = "qualys_list_hosts" ->
         [ips : {Undefined, Str(<<"10.0.0.1", ",", "10.0.0.2">>),
                 Str(<<LoneSurrogate>>)}]
    [] name = "QUALYS_LIST_HOSTS" ->
         [ips : {Undefined, Str(<<"10.0.0.1">>)}]
    [] name = "qualys_get_host_detections" ->
         [ips : {Str(<<"10.0.0.1", ",", "10.0.0.2">>)},
          severities : {Str(<<"4", ",", "5">>)},
          truncation_limit : {Num(100)},
          show_igs : {Undefined, Bool(TRUE)}]
    [] name = "qualys_list_tags" ->
         [name : {Undefined, Str(<<"prod">>)}]
    [] OTHER -> {NoArgs}

Ok(data, contentType) ==
  [ok |-> TRUE, response |-> [data |-> data, contentType |-> contentType],
   error |-> NoErr]

Fail(error) ==
  [ok |-> FALSE, response |-> [data |-> Undefined, contentType |-> Undefined],
   error |-> error]

OkXml == Ok(Str(<<"<", "RESPONSE", ">", "ok", "</", "RESPONSE", ">">>),
            Str(<<"text/xml">>))

Timeout ==
  Fail(AxiosError(<<"timeout of 120000ms exceeded">>, "ECONNABORTED"))

\* what the remote service, or the transport, may answer to a request
Replies ==
  { OkXml,
    Ok(Str(<<"<", "unterminated">>), Str(<<"text/xml">>)),
    Ok(Str(<<"Error: ", "boom">>), Str(<<"application/json">>)),
    Fail(AxiosResponseError(401, <<"Unauthorized">>, Str(<<"denied">>),
                            "ERR_BAD_REQUEST")),
    Fail(AxiosError(<<"connect ECONNREFUSED">>, "ECONNREFUSED")),
    Timeout,
    Fail(LocalError("TypeError: ", <<"socket hang up">>)) }

Request(name, args, reply) == [name |-> name, args |-> args, reply |-> reply]

\* every tool call the model draws
Requests ==
  UNION { { Request(name, args, reply) : args \in ArgsFor(name),
                                          reply \in Replies } :
          name \in Names }

Background == Request("qualys_list_hosts", NoArgs, OkXml)

\* a call under study among MaxBackground plain calls
DispatchScenarios ==
  { [i \in 1..(MaxBackground + 1) |-> IF i = k THEN r ELSE Background] :
      r \in Requests, k \in 1..(MaxBackground + 1) }

RateRequests ==
  { Background,
    Request("qualys_list_hosts", NoArgs, Timeout),
    Request("qualys_cancel_scan", NoArgs, OkXml) }

\* MaxBurst calls that arrive as the clock allows
RateScenarios == [1..MaxBurst -> RateRequests]

\* MaxLive calls, each answered or timing out
LiveScenarios ==
  [1..MaxLive -> {Background, Request("qualys_list_hosts", NoArgs, Timeout)}]

\* mappings handed to buildFormData on its own: up to MaxEntries entries
\* of distinct keys, in insertion order
FormKeys == {"ips", "&", "1", "0"}

FormValues ==
  { Undefined, Str(<<>>), Str(<<"a", "&", "b">>),
    Str(<<"x", "=", "%", "2C", "?", " ", "y">>),
    Num(0), Bool(FALSE), Str(<<LoneSurrogate>>) }

FormInputs ==
  { p \in UNION { [1..n -> FormKeys \X FormValues] : n \in 0..MaxEntries } :
      \A i, j \in DOMAIN p : i # j => p[i][1] # p[j][1] }

\* texts handed to parseXmlResponse on its own
XmlPieces == {"<", ">", "</", "raw", "unterminated"}

XmlInputs == {Str(s) : s \in UNION {[1..n -> XmlPieces] : n \in 0..MaxXmlLen}}

\* errors handed to handleApiError on its own
ErrorCodes == {"", "ERR_BAD_REQUEST", "ECONNREFUSED", "ECONNABORTED"}

ErrorMessages ==
  { <<"connect ECONNREFUSED 127.0.0.1:443">>,
    <<"timeout of 120000ms exceeded">>, <<"Network Error">> }

Statuses ==
  { <<401, <<"Unauthorized">> >>, <<404, <<"Not Found">> >>,
    <<409, <<"Conflict">> >>, <<500, <<"Internal Server Error">> >>,
    <<503, <<"Service Unavailable">> >> }

ErrorInputs ==
  { AxiosResponseError(st[1], st[2], data, code) :
      st \in Statuses, data \in {Str(<<"denied">>), Str(<<>>), Null},
      code \in ErrorCodes }
  \cup { AxiosError(message, code) :
           message \in ErrorMessages, code \in ErrorCodes }
  \cup { [LocalError(name, message) EXCEPT !.code = code] :
           name \in {"", "Error: ", "TypeError: "},
           message \in ErrorMessages, code \in ErrorCodes }

\* every key a registered tool declares
DeclaredKeys == UNION {tools[i].properties : i \in DOMAIN tools}

\* a tool call, and one more argument under a key that the case of the tool
\* does not read
ReadInputs ==
  UNION { { [name |-> name, args |-> args, key |-> key, value |-> value] :
              args \in ArgsFor(name),
              key \in DeclaredKeys \ KeysRead(Route(name)),
              value \in {Str(<<"csv">>), Bool(FALSE)} } :
          name \in ToolNames }

(***************************************************************************)
(* The state machine.                                                      *)
(***************************************************************************)
InitWith(users, passwords, scenarios) ==
  /\ QUALYS_USERNAME \in users
  /\ QUALYS_PASSWORD \in passwords
  /\ lastRequestTime = 0
  /\ apiClient = NoClient
  /\ cachedAuthHeader = NullHeader
  /\ now = StartTime
  /\ pending \in scenarios
  /\ calls = <<>>
  /\ starts = <<>>
  /\ created = 0
  /\ computed = 0

\* no helper function is called on its own
NotCalled == [done |-> FALSE, value |-> <<>>]

NoHelperCall == input = <<>> /\ output = NotCalled

Init ==
  /\ InitWith({"", "user"}, {"", "secret"}, DispatchScenarios)
  /\ NoHelperCall

InitRate == InitWith({"user"}, {"secret"}, RateScenarios) /\ NoHelperCall

InitLive == InitWith({"user"}, {"secret"}, LiveScenarios) /\ NoHelperCall

\* no tool call arrives; a helper function is called once with an input
InitHelper(inputs) ==
  /\ InitWith({"user"}, {"secret"}, {<<>>})
  /\ input \in inputs
  /\ output = NotCalled

InitForm == InitHelper(FormInputs)

InitParse == InitHelper(XmlInputs)

InitClassify == InitHelper(ErrorInputs)

InitReads == InitHelper(ReadInputs)

\* a handleToolCall invocation at its entry
NewCall(req) ==
  [name |-> req.name, args |-> req.args, reply |-> req.reply, pc |-> "entry",
   via |-> "-", delay |-> 0, wake |-> 0, client |-> NoClient,
   label |-> "-",
   request |-> NoRequest, sent |-> 0, envelope |-> NoEnvelope,
   error |-> NoErr]

Returned(call, via, envelope) ==
  [call EXCEPT !.pc = "returned", !.via = via, !.envelope = envelope]

\* variant: a handleToolCall invocation without its catch block
CaughtNowhere(call, error) ==
  [call EXCEPT !.pc = "threw", !.via = "escape", !.error = error]

\* the call after its try block threw or rejected with error
Caught(call, error) ==
  LET c == CatchBlock(error)
  IN  IF c.escaped
      THEN [call EXCEPT !.pc = "threw", !.via = "escape", !.error = error]
      ELSE [Returned(call, "catch", c.envelope) EXCEPT !.error = error]

\* lastRequestTime = Date.now(); return fn(): the request is sent, and the
\* timer, if there was one, is gone
Dispatched(call) ==
  [call EXCEPT !.pc = "inflight", !.sent = @ + 1, !.delay = 0]

\* variant: the time is recorded as soon as the client is there, before the
\* arguments are checked
ReceiveRecordingFirst ==
  /\ pending # <<>>
  /\ pending' = Tail(pending)
  /\ LET call == NewCall(Head(pending))
         got == getApiClient
         prep == Prepare(call.name, call.args)
         ready == [call EXCEPT !.client = got.client, !.label = prep.label,
                               !.request = prep.request]
         delay == RemainingDelay(now)
     IN  IF checkCredentials # <<>>
         THEN /\ calls' = Append(calls,
                   Returned(call, "credentials",
                            Envelope(<<"Error: ">> \o checkCredentials)))
              /\ UNCHANGED <<lastRequestTime, apiClient, cachedAuthHeader,
                             starts, created, computed>>
         ELSE /\ apiClient' = got.apiClient
              /\ cachedAuthHeader' = got.cachedAuthHeader
              /\ created' = got.created
              /\ computed' = got.computed
              /\ IF prep.thrown
                 THEN /\ calls' = Append(calls, Caught(ready, prep.error))
                      /\ lastRequestTime' = now
                      /\ UNCHANGED starts
                 ELSE IF delay > 0
                 THEN /\ calls' = Append(calls,
                           [ready EXCEPT !.pc = "sleeping",
                                         !.delay = delay,
                                         !.wake = now + delay])
                      /\ UNCHANGED <<lastRequestTime, starts>>
                 ELSE /\ calls' = Append(calls, Dispatched(ready))
                      /\ lastRequestTime' = now
                      /\ starts' = Append(starts, now)
  /\ UNCHANGED <<QUALYS_USERNAME, QUALYS_PASSWORD, now, input, output>>

\* handleToolCall from its entry to its first suspension or its return
Receive ==
  /\ pending # <<>>
  /\ pending' = Tail(pending)
  /\ LET call == NewCall(Head(pending))
         got == getApiClient
         prep == Prepare(call.name, call.args)
         ready == [call EXCEPT !.client = got.client, !.label = prep.label,
                               !.request = prep.request]
         delay == RemainingDelay(now)
     IN  IF checkCredentials # <<>>
         THEN /\ calls' = Append(calls,
                   Returned(call, "credentials",
                            Envelope(<<"Error: ">> \o checkCredentials)))
              /\ UNCHANGED <<lastRequestTime, apiClient, cachedAuthHeader,
                             starts, created, computed>>
         ELSE /\ apiClient' = got.apiClient
              /\ cachedAuthHeader' = got.cachedAuthHeader
              /\ created' = got.created
              /\ computed' = got.computed
              /\ IF prep.thrown
                 THEN /\ calls' = Append(calls, Caught(ready, prep.error))
                      /\ UNCHANGED <<lastRequestTime, starts>>
                 ELSE IF delay > 0
                 THEN /\ calls' = Append(calls,
                           [ready EXCEPT !.pc = "sleeping",
                                         !.delay = delay,
                                         !.wake = now + delay])
                      /\ UNCHANGED <<lastRequestTime, starts>>
                 ELSE /\ calls' = Append(calls, Dispatched(ready))
                      /\ lastRequestTime' = now
                      /\ starts' = Append(starts, now)
  /\ UNCHANGED <<QUALYS_USERNAME, QUALYS_PASSWORD, now, input, output>>

\* the timer of call c runs before the timer of call d when both are due:
\* timers run by due time, and timers of one delay in the order they were
\* set. Timers of different delays due in the same clock step run in
\* either order: the timer counts from the event loop's time, which lags
\* the Date.now() the delay was computed from
RunsBefore(c, d) ==
  \/ calls[c].wake < calls[d].wake
  \/ calls[c].wake = calls[d].wake /\ calls[c].delay = calls[d].delay /\ c < d

\* the timer of a suspended rateLimitedRequest fires: the call records the
\* time and sends its request
Wake(c) ==
  /\ calls[c].pc = "sleeping"
  /\ now >= calls[c].wake
  /\ \A d \in DOMAIN calls : calls[d].pc = "sleeping" => ~RunsBefore(d, c)
  /\ calls' = [calls EXCEPT ![c] = Dispatched(@)]
  /\ lastRequestTime' = now
  /\ starts' = Append(starts, now)
  /\ UNCHANGED <<QUALYS_USERNAME, QUALYS_PASSWORD, apiClient,
                 cachedAuthHeader, now, pending, created, computed, input,
                 output>>

\* variant: the time is recorded again when the operation settles
RespondRecording(c) ==
  /\ calls[c].pc = "inflight"
  /\ LET call == calls[c]
     IN  calls' = [calls EXCEPT ![c] =
           IF call.reply.ok
           THEN Returned(call, "success",
                         SuccessEnvelope(ResultOf(call, call.reply.response)))
           ELSE Caught(call, call.reply.error)]
  /\ lastRequestTime' = now
  /\ UNCHANGED <<QUALYS_USERNAME, QUALYS_PASSWORD,
                 apiClient, cachedAuthHeader, now, pending, starts, created,
                 computed, input, output>>

\* client.post settles: the call builds its result and returns, or catches
Respond(c) ==
  /\ calls[c].pc = "inflight"
  /\ LET call == calls[c]
     IN  calls' = [calls EXCEPT ![c] =
           IF call.reply.ok
           THEN Returned(call, "success",
                         SuccessEnvelope(ResultOf(call, call.reply.response)))
           ELSE Caught(call, call.reply.error)]
  /\ UNCHANGED <<QUALYS_USERNAME, QUALYS_PASSWORD, lastRequestTime,
                 apiClient, cachedAuthHeader, now, pending, starts, created,
                 computed, input, output>>

\* a timer is set and not yet due
TimerPending ==
  \E c \in DOMAIN calls : calls[c].pc = "sleeping" /\ calls[c].wake > now

\* the clock advances
Tick ==
  /\ now + Quantum <= StartTime + MaxTicks * Quantum \/ TimerPending
  /\ now' = now + Quantum
  /\ UNCHANGED <<QUALYS_USERNAME, QUALYS_PASSWORD, lastRequestTime,
                 apiClient, cachedAuthHeader, pending, calls, starts,
                 created, computed, input, output>>

Next ==
  \/ Receive
  \/ \E c \in DOMAIN calls : Wake(c)
  \/ \E c \in DOMAIN calls : Respond(c)
  \/ Tick

\* the helper function under study returns value
Return(value) ==
  /\ ~output.done
  /\ output' = [done |-> TRUE, value |-> value]
  /\ UNCHANGED <<QUALYS_USERNAME, QUALYS_PASSWORD, lastRequestTime,
                 apiClient, cachedAuthHeader, now, pending, calls, starts,
                 created, computed, input>>

CallBuildFormData == Return(buildFormData(input))

CallParseXmlResponse == Return(parseXmlResponse(input))

CallHandleApiError == Return(handleApiError(input))

\* args with one more key
WithKey(args, key, value) ==
  [k \in DOMAIN args \cup {key} |-> IF k = key THEN value ELSE args[k]]

\* the switch runs on the call with the further argument, and is answered
\* with a well-formed document
CallHandleToolCall ==
  Return(Handled(input.name, WithKey(input.args, input.key, input.value),
                 OkXml.response))

Spec == Init /\ [][Next]_vars

SpecRate == InitRate /\ [][Next]_vars

\* the event loop is fair to the calls that have begun: the clock advances,
\* a timer that is due runs, and a request that was sent is answered or
\* fails (the client's timeout bounds it). Nothing is asked of the arrival
\* of further calls
Fairness ==
  /\ WF_vars(Tick)
  /\ \A c \in 1..MaxLive :
       /\ WF_vars(c \in DOMAIN calls /\ Wake(c))
       /\ WF_vars(c \in DOMAIN calls /\ Respond(c))

SpecFair == InitLive /\ [][Next]_vars /\ Fairness

SpecForm == InitForm /\ [][CallBuildFormData]_vars

SpecParse == InitParse /\ [][CallParseXmlResponse]_vars

SpecClassify == InitClassify /\ [][CallHandleApiError]_vars

SpecReads == InitReads /\ [][CallHandleToolCall]_vars

(***************************************************************************)
(* Properties.                                                             *)
(***************************************************************************)
Configured == QUALYS_USERNAME # "" /\ QUALYS_PASSWORD # ""

ReturnedCalls == {c \in DOMAIN calls : calls[c].pc = "returned"}

TextOf(call) == call.envelope.content[1].text

BeginsWithError(text) == text # <<>> /\ text[1] = "Error: "

\* text contains the pieces a, b next to each other
ContainsPair(text, a, b) ==
  \E i \in 1..(Len(text) - 1) : text[i] = a /\ text[i + 1] = b

Mentions(text, piece) == \E i \in DOMAIN text : text[i] = piece

RequiredText(field) ==
  <<"Error: ", "Unknown Error: ", "Error: ", field, " is required">>

\* C1: the start times of every two consecutively dispatched operations
\* differ by at least RATE_LIMIT_DELAY_MS. Fails: two callers suspended
\* over the same interval both resume at its end.
C1_MinimumSpacing ==
  \A i \in 1..(Len(starts) - 1) :
    starts[i + 1] - starts[i] >= RATE_LIMIT_DELAY_MS

\* C2: with QUALYS_USERNAME or QUALYS_PASSWORD empty, every handleToolCall
\* invocation, whatever its tool name and arguments, has returned the fixed
\* credentials text and no request has been sent.
C2_NoCredentialsNoNetwork ==
  ~Configured =>
    /\ starts = <<>>
    /\ \A c \in DOMAIN calls :
         /\ calls[c].pc = "returned"
         /\ calls[c].sent = 0
         /\ calls[c].envelope = Envelope(<<"Error: ">> \o CredentialText)

\* C2 witness: only the username is missing, and a registered and an
\* unregistered tool were both called
C2_Witness ==
  /\ QUALYS_USERNAME = "" /\ QUALYS_PASSWORD # ""
  /\ \E c \in ReturnedCalls : calls[c].name \in ToolNames
  /\ \E c \in ReturnedCalls :
       calls[c].name \notin ToolNames /\ calls[c].args # NoArgs

\* C3: no failure escapes handleToolCall as an exception, and every
\* invocation that has completed returned an envelope of exactly one
\* content block of type "text".
C3_AlwaysAnEnvelope ==
  \A c \in DOMAIN calls :
    /\ calls[c].pc # "threw"
    /\ calls[c].pc = "returned" =>
         /\ Len(calls[c].envelope.content) = 1
         /\ calls[c].envelope.content[1].type = "text"
         /\ calls[c].envelope.content[1].text # <<>>

\* C3 witness: a request failed with an error that is not an AxiosError and
\* the call returned all the same
C3_Witness ==
  \E c \in ReturnedCalls :
    /\ calls[c].sent = 1
    /\ ~calls[c].reply.ok /\ ~calls[c].reply.error.isAxios

\* C4: the returned text begins with "Error: " if and only if the dispatch
\* failed, that is unless the call sent its request and the request
\* succeeded.
C4_ErrorPrefixIffFailed ==
  \A c \in ReturnedCalls :
    BeginsWithError(TextOf(calls[c]))
      <=> ~(calls[c].sent = 1 /\ calls[c].reply.ok)

\* C4 witness: a successful call whose result is the string Error: boom
C4_Witness ==
  \E c \in ReturnedCalls :
    /\ calls[c].via = "success"
    /\ calls[c].request.treatment = "direct"
    /\ calls[c].reply.response.data = Str(<<"Error: ", "boom">>)

\* C5: with credentials configured, an invocation sends exactly one request
\* when its tool is registered and its required-argument checks pass, zero
\* otherwise, and never more than one. Fails: a case can throw while it
\* derives or encodes its parameters.
C5_ExactlyOneRequest ==
  Configured =>
    \A c \in DOMAIN calls :
      /\ calls[c].sent <= 1
      /\ calls[c].pc = "returned" =>
           calls[c].sent =
             IF /\ calls[c].name \in ToolNames
                /\ Validation(calls[c].name, calls[c].args) = NoErr
             THEN 1 ELSE 0

\* C6: qualys_launch_scan without scan_title returns the validation error
\* naming scan_title; with scan_title and none of ip, asset_groups,
\* asset_group_ids it returns the one naming the three; no request is sent.
C6_LaunchScanValidation ==
  Configured =>
    \A c \in ReturnedCalls :
      LET call == calls[c]
          NoSelector ==
            \A k \in {"ip", "asset_groups", "asset_group_ids"} :
              Get(call.args, k) = Undefined
      IN  call.name = "qualys_launch_scan" =>
            /\ Get(call.args, "scan_title") = Undefined =>
                 /\ TextOf(call) = RequiredText("scan_title")
                 /\ call.sent = 0
            /\ Truthy(Get(call.args, "scan_title")) /\ NoSelector =>
                 /\ BeginsWithError(TextOf(call))
                 /\ \A k \in {"ip", "asset_groups", "asset_group_ids"} :
                      Mentions(TextOf(call), k)
                 /\ ~Mentions(TextOf(call), "scan_title")
                 /\ call.sent = 0

\* C6 witness: a launch with a title and no target selector has returned
C6_Witness ==
  /\ Configured
  /\ \E c \in ReturnedCalls :
       /\ calls[c].name = "qualys_launch_scan"
       /\ Truthy(Get(calls[c].args, "scan_title"))
       /\ \A k \in {"ip", "asset_groups", "asset_group_ids"} :
            Get(calls[c].args, k) = Undefined

\* C7: for every registered tool and every parameter its inputSchema
\* requires, a call without that argument returns the error naming the
\* field and sends no request.
C7_RequiredArguments ==
  Configured =>
    \A c \in ReturnedCalls :
      calls[c].name \in ToolNames =>
        \A k \in Required(calls[c].name) :
          Get(calls[c].args, k) = Undefined =>
            /\ TextOf(calls[c]) = RequiredText(k)
            /\ calls[c].sent = 0

\* C7 witness: qualys_resume_scan was called without scan_ref
C7_Witness ==
  /\ Configured
  /\ \E c \in ReturnedCalls :
       /\ calls[c].name = "qualys_resume_scan"
       /\ Get(calls[c].args, "scan_ref") = Undefined

\* C8: with credentials configured, a call of a name that is not registered
\* returns an error text containing "Unknown tool: <name>" and sends no
\* request.
C8_UnknownTool ==
  Configured =>
    \A c \in ReturnedCalls :
      calls[c].name \notin ToolNames =>
        /\ BeginsWithError(TextOf(calls[c]))
        /\ ContainsPair(TextOf(calls[c]), "Unknown tool: ", calls[c].name)
        /\ calls[c].sent = 0

\* C8 witness: a registered name in capitals was called
C8_Witness ==
  /\ Configured
  /\ \E c \in ReturnedCalls : calls[c].name = "QUALYS_LIST_HOSTS"

\* C9: the registered names are the case labels of the switch, and a call
\* is routed to the case of its own name when the name is registered and to
\* the default branch otherwise.
C9_RegistryMatchesSwitch ==
  /\ ToolNames = CaseLabels
  /\ Len(tools) = Cardinality(ToolNames)
  /\ \A c \in DOMAIN calls :
       calls[c].label # "-" =>
         calls[c].label =
           IF calls[c].name \in ToolNames THEN calls[c].name ELSE "default"

\* C9 witness: a registered name reached its case and the same name with a
\* suffix reached the default branch
C9_Witness ==
  /\ \E c \in DOMAIN calls :
       calls[c].name = "qualys_list_hosts_v2" /\ calls[c].label = "default"
  /\ \E c \in DOMAIN calls :
       calls[c].name = "qualys_list_hosts"
       /\ calls[c].label = "qualys_list_hosts"

\* what getApiClient has kept over the whole run
C10_OneClient ==
  /\ created <= 1
  /\ computed <= 1
  /\ \A c \in DOMAIN calls :
       calls[c].client # NoClient =>
         calls[c].client = apiClient /\ calls[c].client.id = 1

Suspended == {c \in DOMAIN calls : calls[c].wake > 0}

\* C11: the operations of the callers suspended in rateLimitedRequest are
\* invoked in the order of the calls: a suspended caller's operation is not
\* invoked while an earlier suspended caller still waits. Fails: the timers
\* of two callers fall due together and the later caller's runs first.
C11_Fifo ==
  \A c, d \in Suspended :
    c < d /\ calls[d].sent = 1 => calls[c].sent = 1

InFlight == {c \in DOMAIN calls : calls[c].pc = "inflight"}

\* C12: never two outbound requests in flight at the same time. Fails:
\* rateLimitedRequest spaces the starts and does not wait for the previous
\* request to settle.
C12_SingleFlight == Cardinality(InFlight) <= 1

\* the entries of the input mapping that buildFormData must render
Present(params) ==
  {i \in DOMAIN params : params[i][2] \notin {Undefined, Str(<<>>)}}

RECURSIVE SplitOn(_, _)
\* text.split(sep), for a separator of one piece
SplitOn(text, sep) ==
  IF \A i \in DOMAIN text : text[i] # sep THEN <<text>>
  ELSE LET i == CHOOSE k \in DOMAIN text :
                  text[k] = sep /\ \A j \in 1..(k - 1) : text[j] # sep
       IN  <<SubSeq(text, 1, i - 1)>>
           \o SplitOn(SubSeq(text, i + 1, Len(text)), sep)

\* the pairs of a wire body
PairsOf(body) == IF body = <<>> THEN <<>> ELSE SplitOn(body, "&")

\* entry i of params comes before entry j in insertion order
InsertionOrder(params, i, j) == i < j

\* entry i comes before entry j in the order of Object.entries: keys that
\* are array indices first and ascending, then the others as inserted
EntriesOrder(params, i, j) ==
  LET ki == params[i][1]
      kj == params[j][1]
  IN  \/ IsIndexKey(ki) /\ IsIndexKey(kj) /\ IndexOf(ki) < IndexOf(kj)
      \/ IsIndexKey(ki) /\ ~IsIndexKey(kj)
      \/ ~IsIndexKey(ki) /\ ~IsIndexKey(kj) /\ i < j

\* body holds one pair for each present entry of params and no other, each
\* key=value percent-encoded, the pairs placed by the order Before
Renders(body, params, Before(_, _, _)) ==
  /\ Len(PairsOf(body)) = Cardinality(Present(params))
  /\ \A i \in Present(params) :
       PairsOf(body)[1 + Cardinality({j \in Present(params) :
                                        Before(params, j, i)})]
         = encodeURIComponent(<<params[i][1]>>) \o <<"=">>
           \o encodeURIComponent(ToStr(params[i][2]))

IsDetectionsExample(call) ==
  /\ call.name = "qualys_get_host_detections"
  /\ Get(call.args, "ips") = Str(<<"10.0.0.1", ",", "10.0.0.2">>)
  /\ Get(call.args, "severities") = Str(<<"4", ",", "5">>)
  /\ Get(call.args, "truncation_limit") = Num(100)
  /\ Get(call.args, "show_igs") = Undefined

DecodePiece(p) ==
  IF \E r \in Reserved : EncodePiece(r) = p
  THEN CHOOSE r \in Reserved : EncodePiece(r) = p
  ELSE p

decodeURIComponent(pieces) == [i \in DOMAIN pieces |-> DecodePiece(pieces[i])]

\* a wire body split on "&" and "=", each part decoded
Decoded(body) ==
  [i \in DOMAIN PairsOf(body) |->
     LET parts == SplitOn(PairsOf(body)[i], "=")
     IN  [k \in DOMAIN parts |-> decodeURIComponent(parts[k])]]

\* the key and the text of entry i, as the decoder should give them back
Original(params, i) == << <<params[i][1]>>, params[i][2].s >>

\* string keys and non-empty string values without a lone surrogate
IsTextMapping(params) ==
  \A i \in DOMAIN params :
    /\ params[i][2].t = "string" /\ params[i][2].s # <<>>
    /\ ~Malformed(params[i][2].s)

IsRawShape(result) ==
  /\ result.isObject
  /\ Len(result.fields) = 1
  /\ result.fields[1][1] = "raw"
  /\ result.fields[1][2].t = "string"

\* C16: parseXmlResponse never raises; for a text that cannot be parsed it
\* returns exactly {raw: the text}, and otherwise the parsed value: null for
\* blank text, an object keyed by the root tag for markup. "<unterminated"
\* gives {raw: "<unterminated"}.
C16_NeverRaises ==
  output.done =>
    /\ ~output.value.thrown
    /\ input.s = <<>> => output.value.result = Scalar(Null)
    /\ input.s # <<>> /\ ~WellFormed(input.s) =>
         output.value.result = Obj(<< <<"raw", input>> >>)
    /\ WellFormed(input.s) =>
         /\ output.value.result.isObject
         /\ Len(output.value.result.fields) = 1
         /\ output.value.result.fields[1][1] = Join(RootName(input.s, NameLen(input.s)))
    /\ input.s = <<"<", "unterminated">> =>
         output.value.result =
           Obj(<< <<"raw", Str(<<"<", "unterminated">>)>> >>)

\* C16 witness: the text <unterminated was handed in and a value returned
C16_Witness ==
  /\ input = Str(<<"<", "unterminated">>)
  /\ output.done
  /\ IsRawShape(output.value.result)

\* C17: for well-formed markup the result is never of the shape
\* {raw: text}. Fails: markup whose root element is called raw parses to
\* an object of that very shape.
C17_RawMeansUnparsed ==
  output.done /\ WellFormed(input.s) => ~IsRawShape(output.value.result)

RefusedText ==
  <<"Connection refused. Check your QUALYS_API_URL configuration.">>

Prepared == {c \in DOMAIN calls : calls[c].request # NoRequest}

\* what buildFormData makes of the parameters of call
FormOf(call) == buildFormData(Params(call.label, call.args)).body

\* C19: qualys_list_tags is the one operation whose request body is JSON
\* and not the form encoder's output, and whose response body is returned
\* as it is; every other operation posts the output of buildFormData as
\* application/x-www-form-urlencoded. Fails: qualys_list_tags posts the
\* output of buildFormData too, under the JSON content type.
C19_OnlyTagsSendJson ==
  \A c \in Prepared :
    IF calls[c].label = "qualys_list_tags"
    THEN /\ calls[c].request.contentType = "application/json"
         /\ calls[c].request.treatment = "direct"
         /\ calls[c].request.body # FormOf(calls[c])
    ELSE /\ calls[c].request.contentType = "application/x-www-form-urlencoded"
         /\ calls[c].request.treatment # "direct"
         /\ calls[c].request.body = FormOf(calls[c])

\* the time the timer of a suspended call is due is the lastRequestTime the
\* call read plus the delay between operations
ReadBy(call) == call.wake - RATE_LIMIT_DELAY_MS

\* C20: a call of rateLimitedRequest writes lastRequestTime while it still
\* holds the value the call read when it decided its delay: no other call
\* has written it in between. Fails: the await of the timer lies between
\* the read and the write, and another suspended call writes first.
C20_ReadAndWriteTogether ==
  [][\A c \in DOMAIN calls :
       calls[c].pc = "sleeping" /\ calls'[c].pc = "inflight"
         => lastRequestTime = ReadBy(calls[c])]_vars

\* this step is the arrival of a call that reaches rateLimitedRequest
Arrives ==
  /\ Len(calls') = Len(calls) + 1
  /\ calls'[Len(calls')].request # NoRequest

\* this step is the resumption of the suspended call c
Resumes(c) == calls[c].pc = "sleeping" /\ calls'[c].pc = "inflight"

\* what rateLimitedRequest does on entry: with d the time since
\* lastRequestTime, it sends at once when d >= RATE_LIMIT_DELAY_MS and sets a
\* timer of RATE_LIMIT_DELAY_MS - d otherwise
EntersAsNeeded ==
  Arrives =>
    LET d == now - lastRequestTime
        call == calls'[Len(calls')]
    IN  IF d >= RATE_LIMIT_DELAY_MS
        THEN /\ call.pc = "inflight" /\ call.sent = 1 /\ call.wake = 0
             /\ lastRequestTime' = now
             /\ starts' = Append(starts, now)
        ELSE /\ call.pc = "sleeping" /\ call.sent = 0
             /\ call.delay = RATE_LIMIT_DELAY_MS - d
             /\ call.wake = now + RATE_LIMIT_DELAY_MS - d
             /\ lastRequestTime' = lastRequestTime
             /\ starts' = starts

\* C21 as stated: a call sends at once when it is the first or comes at
\* least RATE_LIMIT_DELAY_MS after lastRequestTime; a call that comes d ms
\* after it, d smaller, is suspended for exactly RATE_LIMIT_DELAY_MS - d ms
\* and then records the time and sends. Fails: the timer is a lower bound,
\* the callback may run later than it is due.
C21_ExactDelay ==
  [][/\ EntersAsNeeded
     /\ \A c \in DOMAIN calls :
          Resumes(c) =>
            /\ now = calls[c].wake
            /\ lastRequestTime' = now
            /\ calls'[c].sent = 1]_vars

\* C21 amended: the timer is set for exactly RATE_LIMIT_DELAY_MS - d ms and
\* the call resumes when it runs, no earlier than that; it then records the
\* time and sends.
C21_NoUnnecessaryDelay ==
  [][/\ EntersAsNeeded
     /\ \A c \in DOMAIN calls :
          Resumes(c) =>
            /\ now >= calls[c].wake
            /\ lastRequestTime' = now
            /\ starts' = Append(starts, now)
            /\ calls'[c].sent = 1]_vars

\* C21 witness: the first call was sent at once, the second came half the
\* delay later, waited and was sent, and the third waits the other half
C21_Witness ==
  /\ Len(calls) = 3
  /\ calls[1].wake = 0 /\ calls[1].sent = 1
  /\ calls[2].wake = StartTime + RATE_LIMIT_DELAY_MS /\ calls[2].sent = 1
  /\ calls[3].pc = "sleeping"
  /\ calls[3].delay = RATE_LIMIT_DELAY_MS - Quantum

\* C22: under fair scheduling, every handleToolCall invocation that has
\* begun eventually returns its envelope, whatever other invocations are
\* pending: none is dropped or left waiting forever.
C22_EveryCallReturns ==
  \A c \in 1..MaxLive :
    (c \in DOMAIN calls) ~> (c \in DOMAIN calls /\ calls[c].pc = "returned")

\* C22 witness: every call has returned, among them one that waited for its
\* timer while another request was unanswered and one whose request timed
\* out
C22_Witness ==
  /\ Len(calls) = MaxLive
  /\ \A c \in DOMAIN calls : calls[c].pc = "returned"
  /\ \E c \in DOMAIN calls : calls[c].wake > 0 /\ calls[c].sent = 1
  /\ \E c \in DOMAIN calls : calls[c].reply = Timeout /\ calls[c].via = "catch"

\* the answered calls of a case label
Answered(label) ==
  {c \in ReturnedCalls : calls[c].label = label /\ calls[c].via = "success"}

\* the envelope of a call is the serialization of result
Carries(c, result) == calls[c].envelope = Envelope(JsonStringify(result))

\* the body of the response a call was answered with
BodyOf(c) == calls[c].reply.response.data

\* the call asked for scan results in a format other than xml
AsksOtherFormat(c) ==
  /\ calls[c].label = "qualys_get_scan_results"
  /\ Truthy(Get(calls[c].args, "output_format"))
  /\ Get(calls[c].args, "output_format") # Str(<<"xml">>)

WirePair(key, value) ==
  <<key, "=">> \o ToStr(IF value.t = "boolean" THEN Flag(value) ELSE value)

\* the wire body of call c carries the pair
Sends(c, pair) ==
  \E i \in DOMAIN PairsOf(calls[c].request.body) :
    PairsOf(calls[c].request.body)[i] = pair

\* C24: for every property whose registry schema declares a default, a call
\* that omits the argument sends a wire body that carries the declared
\* default for it, booleans as 1 and 0. Fails: the priority of
\* qualys_launch_scan, declared with default 0, is passed as it came, and
\* an omitted priority never reaches the wire.
C24_DeclaredDefaultsSent ==
  \A c \in Prepared :
    \A d \in defaults :
      calls[c].name = d[1] /\ Get(calls[c].args, d[2]) = Undefined
        => Sends(c, WirePair(d[2], d[3]))

\* the properties the registry declares for a tool
Declared(name) ==
  LET i == CHOOSE j \in DOMAIN tools : tools[j].name = name
  IN  tools[i].properties

\* C25: for every registered tool, every key of the argument map that its
\* case reads is declared in the properties of its inputSchema; what the
\* case prepares and returns does not change with an argument under any
\* other key.
C25_ReadsOnlyDeclared ==
  /\ \A name \in ToolNames : KeysRead(Route(name)) \subseteq Declared(name)
  /\ output.done =>
       output.value = Handled(input.name, input.args, OkXml.response)

\* C25 witness: a host listing was called with an output_format, which it
\* does not declare, and returned the parsed document all the same
C25_Witness ==
  /\ output.done
  /\ input.name = "qualys_list_hosts" /\ input.key = "output_format"
  /\ input.value = Str(<<"csv">>)
  /\ "output_format" \notin Declared("qualys_list_hosts")
  /\ ~output.value.prepared.thrown
  /\ output.value.result = parseXmlResponse(OkXml.response.data).result

\* C26: whenever the client exists, the credentials are configured and the
\* cached Authorization header is computed; the client carries that header,
\* and no request is sent with an empty one.
C26_ClientImpliesHeader ==
  /\ apiClient # NoClient =>
       /\ Configured
       /\ cachedAuthHeader # NullHeader
       /\ apiClient.authorization = cachedAuthHeader
  /\ \A c \in DOMAIN calls :
       calls[c].sent > 0 =>
         calls[c].client # NoClient /\ calls[c].client.authorization # <<>>

\* C26 witness: the client exists and a request went out under the header
\* made of the two credentials
C26_Witness ==
  /\ apiClient # NoClient
  /\ cachedAuthHeader = BasicHeader
  /\ \E c \in DOMAIN calls :
       calls[c].sent = 1 /\ calls[c].client.authorization = BasicHeader

\* this step is a whole invocation that ends in the configuration error, in
\* a required-argument error or in the unknown-tool error
EndsUnsent ==
  /\ Len(calls') = Len(calls) + 1
  /\ LET call == calls'[Len(calls')]
     IN  /\ call.pc = "returned"
         /\ \/ TextOf(call) = <<"Error: ">> \o CredentialText
            \/ \E field \in {"scan_title", "scan_ref", "template_id", "id"} :
                 TextOf(call) = RequiredText(field)
            \/ TextOf(call) =
                 <<"Error: ", "Unknown Error: ", "Error: ", "Unknown tool: ",
                   call.name>>

Sent(c) ==
  /\ c \in DOMAIN calls'
  /\ calls'[c].pc = "inflight"
  /\ c \in DOMAIN calls => calls[c].pc = "sleeping"

\* this step settles the request of call c
Settles(c) == calls[c].pc = "inflight" /\ calls'[c].pc # "inflight"

\* C28: rateLimitedRequest records lastRequestTime when it invokes the
\* operation and the call never changes it afterwards: the settling of the
\* operation, failed or not, leaves it alone, so that lastRequestTime is the
\* start time of the latest operation and the next call is spaced from
\* that, not from the time the operation ended.
C28_RecordedAtStart ==
  [][/\ \A c \in DOMAIN calls' :
          Sent(c) => lastRequestTime' = now /\ starts' = Append(starts, now)
     /\ \A c \in DOMAIN calls :
          Settles(c) => lastRequestTime' = lastRequestTime /\ starts' = starts
     /\ starts # <<>> => lastRequestTime = starts[Len(starts)]
     /\ Arrives =>
          LET call == calls'[Len(calls')]
          IN  IF now - lastRequestTime >= RATE_LIMIT_DELAY_MS
              THEN call.pc = "inflight"
              ELSE call.pc = "sleeping"
                   /\ call.wake = lastRequestTime + RATE_LIMIT_DELAY_MS]_vars

\* C28 witness: the first operation timed out, some time after its start;
\* the second call came less than the delay after that start and its timer
\* was set from the start of the first, which is still what lastRequestTime
\* held when the second resumed
C28_Witness ==
  /\ Len(calls) >= 2 /\ Len(starts) = 2
  /\ calls[1].reply = Timeout /\ calls[1].via = "catch"
  /\ calls[1].pc = "returned" /\ calls[1].sent = 1
  /\ calls[2].wake = starts[1] + RATE_LIMIT_DELAY_MS
  /\ calls[2].pc = "inflight"
  /\ lastRequestTime = starts[2]

\* the values that are falsy and not undefined
Falsy == {Num(0), Str(<<>>), Bool(FALSE), Null}

\* C29: the checks of required arguments test falsiness: a call that gives
\* 0, "", false or null for a required argument returns the same
\* "<field> is required" error as a call that omits it, and sends nothing;
\* so for id = 0 of qualys_download_report and template_id = 0 of
\* qualys_launch_report.
C29_FalsyIsMissing ==
  Configured =>
    \A c \in DOMAIN calls :
      calls[c].name \in ToolNames =>
        \A k \in Required(calls[c].name) :
          Get(calls[c].args, k) \in Falsy =>
            /\ calls[c].pc = "returned"
            /\ TextOf(calls[c]) = RequiredText(k)
            /\ calls[c].sent = 0
            /\ calls[c].request = NoRequest

\* C29 witness: qualys_download_report was called with id = 0 and returned
\* after another call had been sent, and each of 0, "", false and null is
\* given for a required argument by some call the model draws
C29_Witness ==
  /\ Configured
  /\ Len(calls) = 2
  /\ calls[1].sent = 1
  /\ calls[2].name = "qualys_download_report"
  /\ Get(calls[2].args, "id") = Num(0)
  /\ calls[2].pc = "returned" /\ Len(starts) = 1
  /\ \A v \in Falsy :
       \E r \in Requests :
         /\ r.name \in ToolNames
         /\ \E k \in Required(r.name) : Get(r.args, k) = v

\* the calls of qualys_list_tags that reached the call of client.post
TagCalls == {c \in Prepared : calls[c].label = "qualys_list_tags"}

\* what goes on the wire for call c
WireOf(c) ==
  transformRequest(calls[c].request.contentType, calls[c].request.body)

\* C30: the wire body of qualys_list_tags is exactly action=list whatever
\* the arguments; the name filter is never forwarded. Fails: the body
\* action=list is posted under the JSON content type (C19), and the client
\* serializes a text that is not JSON as a JSON string: the wire carries
\* "action=list", quotes included.
C30_TagsWireBody ==
  \A c \in TagCalls : WireOf(c) = <<"action", "=", "list">>

====
